---- MODULE Spec2Model ----
(***************************************************************************)
(* Interval binning (UCSC Genome Browser scheme), package binning.         *)
(*                                                                         *)
(* The package is a set of pure methods on an immutable Binning value,     *)
(* plus one stateful object: the closure returned by ranges, which walks   *)
(* the levels from the smallest bins to the root.  The model keeps the     *)
(* scheme, the most recent call of a caller that makes one call at a time  *)
(* (operation, arguments, returned value), and the state of the closure    *)
(* the caller currently holds.                                             *)
(*                                                                         *)
(* Go's int is 64 bits wide.  Every value computed here stays below 2^31   *)
(* (positions are at most a few multiples of 2^29), so no operation of the *)
(* model wraps and the arithmetic is that of the integers.                 *)
(***************************************************************************)
EXTENDS Integers, Sequences, FiniteSets

VARIABLES b, op, args, ret, clo, yielded

vars == <<b, op, args, ret, clo, yielded>>

(***************************************************************************)
(* Bounds of the model.                                                    *)
(***************************************************************************)
\* Input positions are taken at, just below and just above the multiples
\* 0..MaxMult of every level's bin size.
MaxMult == 1
\* Covered is called with bins from -BinSlack to MaxBin + BinSlack.
BinSlack == 1
\* A closure returned by ranges is called at most MaxCalls times.
MaxCalls == 7
\* Schemes built by NewBinning in SpecNew: largest maxPosition, largest
\* offset of the finest level, largest shift.
MaxPositionNew == 4
MaxOffsetNew == 2
MaxShiftNew == 2

(***************************************************************************)
(* Shifts.  x >> k on a Go int is the arithmetic shift, i.e. the floor of  *)
(* x / 2^k, which is what \div computes; x << k is x * 2^k.                *)
(***************************************************************************)
Shr(x, k) == x \div (2 ^ k)

Shl(x, k) == x * (2 ^ k)

(***************************************************************************)
(* Returned values.  err is the error's kind ("nil" for no error); panic   *)
(* marks a call that ended in panic("unexpected loop fall-through").       *)
(***************************************************************************)
NoError == "nil"

OutOfRange == "interval out of range"

InvalidBin == "not a valid bin number"

\* The closure value returned beside an error: nil.
NilClosure == [live |-> FALSE, startBin |-> 0, stopBin |-> 0, maxLevel |-> 0, level |-> 0]

(***************************************************************************)
(* NewBinning and StandardBinning.  binOffsets is 1-indexed here: the      *)
(* offset of Go's level i is binOffsets[i + 1].                            *)
(***************************************************************************)
NewBinning(maxPosition, binOffsets, shiftFirst, shiftNext) ==
    [MaxPosition |-> maxPosition,
     MaxBin      |-> binOffsets[1] + Shr(maxPosition, shiftFirst),
     binOffsets  |-> binOffsets,
     shiftFirst  |-> shiftFirst,
     shiftNext   |-> shiftNext]

StandardBinning ==
    NewBinning(Shl(1, 29) - 1, <<512 + 64 + 8 + 1, 64 + 8 + 1, 8 + 1, 1, 0>>, 17, 3)

(***************************************************************************)
(* ranges: the validation, the normalisation of stop <= start, and the     *)
(* closure's captured variables.                                           *)
(***************************************************************************)
\* ranges rejecting stop <= start instead of reading it as one position.
RangesRejectsEmpty(s, start, stop) ==
    IF start < 0 \/ stop > s.MaxPosition + 1 \/ stop <= start
    THEN [clo |-> NilClosure, err |-> OutOfRange]
    ELSE [clo |-> [live     |-> TRUE,
                   startBin |-> Shr(start, s.shiftFirst),
                   stopBin  |-> Shr(stop - 1, s.shiftFirst),
                   maxLevel |-> Len(s.binOffsets) - 1,
                   level    |-> 0],
          err |-> NoError]

ranges(s, start, stop) ==
    IF start < 0 \/ stop > s.MaxPosition + 1
    THEN [clo |-> NilClosure, err |-> OutOfRange]
    ELSE LET stop1 == IF stop <= start THEN start + 1 ELSE stop
         IN  [clo |-> [live     |-> TRUE,
                       startBin |-> Shr(start, s.shiftFirst),
                       stopBin  |-> Shr(stop1 - 1, s.shiftFirst),
                       maxLevel |-> Len(s.binOffsets) - 1,
                       level    |-> 0],
              err |-> NoError]

\* nextRange without "if level > 0": the first call shifts too.
NextRangeShiftsAtOnce(s, c) ==
    IF c.level > c.maxLevel
    THEN [clo |-> c, first |-> 0, last |-> 0, ok |-> FALSE]
    ELSE LET startBin == Shr(c.startBin, s.shiftNext)
             stopBin  == Shr(c.stopBin, s.shiftNext)
             level    == c.level + 1
         IN  [clo   |-> [c EXCEPT !.startBin = startBin, !.stopBin = stopBin, !.level = level],
              first |-> s.binOffsets[(level - 1) + 1] + startBin,
              last  |-> s.binOffsets[(level - 1) + 1] + stopBin,
              ok    |-> TRUE]

\* nextRange with "level >= maxLevel": the root level is never yielded.
NextRangeStopsEarly(s, c) ==
    IF c.level >= c.maxLevel
    THEN [clo |-> c, first |-> 0, last |-> 0, ok |-> FALSE]
    ELSE LET startBin == IF c.level > 0 THEN Shr(c.startBin, s.shiftNext) ELSE c.startBin
             stopBin  == IF c.level > 0 THEN Shr(c.stopBin, s.shiftNext) ELSE c.stopBin
             level    == c.level + 1
         IN  [clo   |-> [c EXCEPT !.startBin = startBin, !.stopBin = stopBin, !.level = level],
              first |-> s.binOffsets[(level - 1) + 1] + startBin,
              last  |-> s.binOffsets[(level - 1) + 1] + stopBin,
              ok    |-> TRUE]

\* One call of the closure c: the closure after the call and what it returns.
nextRange(s, c) ==
    IF c.level > c.maxLevel
    THEN [clo |-> c, first |-> 0, last |-> 0, ok |-> FALSE]
    ELSE LET startBin == IF c.level > 0 THEN Shr(c.startBin, s.shiftNext) ELSE c.startBin
             stopBin  == IF c.level > 0 THEN Shr(c.stopBin, s.shiftNext) ELSE c.stopBin
             level    == c.level + 1
         IN  [clo   |-> [c EXCEPT !.startBin = startBin, !.stopBin = stopBin, !.level = level],
              first |-> s.binOffsets[(level - 1) + 1] + startBin,
              last  |-> s.binOffsets[(level - 1) + 1] + stopBin,
              ok    |-> TRUE]

(***************************************************************************)
(* Assign: the first level whose first and last bin coincide.              *)
(***************************************************************************)
AssignPanic == [bin |-> 0, err |-> NoError, panic |-> TRUE]

RECURSIVE AssignLoop(_, _)
AssignLoop(s, c) ==
    LET r == nextRange(s, c)
    IN  IF ~r.ok THEN AssignPanic
        ELSE IF r.first = r.last THEN [bin |-> r.first, err |-> NoError, panic |-> FALSE]
        ELSE AssignLoop(s, r.clo)

Assign(s, start, stop) ==
    LET r == ranges(s, start, stop)
    IN  IF r.err # NoError
        THEN [bin |-> 0, err |-> r.err, panic |-> FALSE]
        ELSE AssignLoop(s, r.clo)

(***************************************************************************)
(* Overlapping: every bin from the first to the last of each level.        *)
(***************************************************************************)
\* tmp without the last bin of the level ("bin < stopBin").
LevelBinsWithoutLast(startBin, stopBin) == [i \in 1..(stopBin - startBin) |-> startBin + (i - 1)]

\* tmp of the loop body: startBin, startBin + 1, ..., stopBin.
LevelBins(startBin, stopBin) == [i \in 1..(stopBin - startBin + 1) |-> startBin + (i - 1)]

RECURSIVE OverlappingLoop(_, _, _)
OverlappingLoop(s, c, bins) ==
    LET r == nextRange(s, c)
    IN  IF ~r.ok THEN bins
        ELSE OverlappingLoop(s, r.clo, bins \o LevelBins(r.first, r.last))

\* A returned list: isNil tells the nil slice from an empty one.
Overlapping(s, start, stop) ==
    LET r == ranges(s, start, stop)
    IN  IF r.err # NoError
        THEN [bins |-> <<>>, isNil |-> TRUE, err |-> r.err, panic |-> FALSE]
        ELSE [bins |-> OverlappingLoop(s, r.clo, <<>>), isNil |-> FALSE,
              err |-> NoError, panic |-> FALSE]

(***************************************************************************)
(* Containing and Contained: Overlapping filtered (in place, the write     *)
(* index never passing the read index) by comparison with the Assign bin.  *)
(***************************************************************************)
\* Containing keeping "bin < maxBin": the Assign bin itself is dropped.
ContainingStrict(s, start, stop) ==
    LET a == Assign(s, start, stop)
        maxBin == a.bin
        KeepBin(bin) == bin < maxBin
    IN  IF a.panic THEN [bins |-> <<>>, isNil |-> TRUE, err |-> NoError, panic |-> TRUE]
        ELSE IF a.err # NoError
        THEN [bins |-> <<>>, isNil |-> TRUE, err |-> a.err, panic |-> FALSE]
        ELSE LET o == Overlapping(s, start, stop)
             IN  IF o.err # NoError
                 THEN [bins |-> <<>>, isNil |-> TRUE, err |-> o.err, panic |-> FALSE]
                 ELSE [o EXCEPT !.bins = SelectSeq(o.bins, KeepBin)]

Containing(s, start, stop) ==
    LET a == Assign(s, start, stop)
        maxBin == a.bin
        KeepBin(bin) == bin <= maxBin
    IN  IF a.panic THEN [bins |-> <<>>, isNil |-> TRUE, err |-> NoError, panic |-> TRUE]
        ELSE IF a.err # NoError
        THEN [bins |-> <<>>, isNil |-> TRUE, err |-> a.err, panic |-> FALSE]
        ELSE LET o == Overlapping(s, start, stop)
             IN  IF o.err # NoError
                 THEN [bins |-> <<>>, isNil |-> TRUE, err |-> o.err, panic |-> FALSE]
                 ELSE [o EXCEPT !.bins = SelectSeq(o.bins, KeepBin)]

\* Contained keeping "bin <= minBin", the comparison of Containing.
ContainedKeepsCoarser(s, start, stop) ==
    LET a == Assign(s, start, stop)
        minBin == a.bin
        KeepBin(bin) == bin <= minBin
    IN  IF a.panic THEN [bins |-> <<>>, isNil |-> TRUE, err |-> NoError, panic |-> TRUE]
        ELSE IF a.err # NoError
        THEN [bins |-> <<>>, isNil |-> TRUE, err |-> a.err, panic |-> FALSE]
        ELSE LET o == Overlapping(s, start, stop)
             IN  IF o.err # NoError
                 THEN [bins |-> <<>>, isNil |-> TRUE, err |-> o.err, panic |-> FALSE]
                 ELSE [o EXCEPT !.bins = SelectSeq(o.bins, KeepBin)]

\* Contained keeping "bin > minBin": the Assign bin itself is dropped.
ContainedStrict(s, start, stop) ==
    LET a == Assign(s, start, stop)
        minBin == a.bin
        KeepBin(bin) == bin > minBin
    IN  IF a.panic THEN [bins |-> <<>>, isNil |-> TRUE, err |-> NoError, panic |-> TRUE]
        ELSE IF a.err # NoError
        THEN [bins |-> <<>>, isNil |-> TRUE, err |-> a.err, panic |-> FALSE]
        ELSE LET o == Overlapping(s, start, stop)
             IN  IF o.err # NoError
                 THEN [bins |-> <<>>, isNil |-> TRUE, err |-> o.err, panic |-> FALSE]
                 ELSE [o EXCEPT !.bins = SelectSeq(o.bins, KeepBin)]

Contained(s, start, stop) ==
    LET a == Assign(s, start, stop)
        minBin == a.bin
        KeepBin(bin) == bin >= minBin
    IN  IF a.panic THEN [bins |-> <<>>, isNil |-> TRUE, err |-> NoError, panic |-> TRUE]
        ELSE IF a.err # NoError
        THEN [bins |-> <<>>, isNil |-> TRUE, err |-> a.err, panic |-> FALSE]
        ELSE LET o == Overlapping(s, start, stop)
             IN  IF o.err # NoError
                 THEN [bins |-> <<>>, isNil |-> TRUE, err |-> o.err, panic |-> FALSE]
                 ELSE [o EXCEPT !.bins = SelectSeq(o.bins, KeepBin)]

(***************************************************************************)
(* Covered: the first offset (finest level first) that is <= bin gives the *)
(* bin's level; the shift grows by shiftNext per level passed.             *)
(***************************************************************************)
\* The loop of Covered without "shift += b.shiftNext".
RECURSIVE CoveredLoopKeepsShift(_, _, _, _)
CoveredLoopKeepsShift(s, bin, i, shift) ==
    IF i > Len(s.binOffsets)
    THEN [start |-> 0, stop |-> 0, err |-> NoError, panic |-> TRUE]
    ELSE LET offset == s.binOffsets[i]
         IN  IF offset <= bin
             THEN [start |-> Shl(bin - offset, shift), stop |-> Shl(bin + 1 - offset, shift),
                   err |-> NoError, panic |-> FALSE]
             ELSE CoveredLoopKeepsShift(s, bin, i + 1, shift)

RECURSIVE CoveredLoop(_, _, _, _)
CoveredLoop(s, bin, i, shift) ==
    IF i > Len(s.binOffsets)
    THEN [start |-> 0, stop |-> 0, err |-> NoError, panic |-> TRUE]
    ELSE LET offset == s.binOffsets[i]
         IN  IF offset <= bin
             THEN [start |-> Shl(bin - offset, shift), stop |-> Shl(bin + 1 - offset, shift),
                   err |-> NoError, panic |-> FALSE]
             ELSE CoveredLoop(s, bin, i + 1, shift + s.shiftNext)

Covered(s, bin) ==
    IF bin < 0 \/ bin > s.MaxBin
    THEN [start |-> 0, stop |-> 0, err |-> InvalidBin, panic |-> FALSE]
    ELSE CoveredLoop(s, bin, 1, s.shiftFirst)

(***************************************************************************)
(* Inputs.                                                                 *)
(***************************************************************************)
\* Intervals of the package's tests and examples (standard scheme).
TestPositions == {74012, 173034, 1200000, 2000000}

\* The size of a bin of level l (0 for the finest) is 2^LevelShift(s, l).
LevelShift(s, l) == s.shiftFirst + l * s.shiftNext

\* Positions around the bin boundaries of every level and around the end of
\* the position space, MaxPosition + 1.
Positions(s) ==
    LET Around(p) == {p - 1, p, p + 1}
    IN  UNION {Around(m * (2 ^ LevelShift(s, l))) :
                 m \in 0..MaxMult, l \in 0..(Len(s.binOffsets) - 1)}
        \cup Around(s.MaxPosition + 1)
        \cup (IF s = StandardBinning THEN TestPositions ELSE {})

Bins(s) == (0 - BinSlack)..(s.MaxBin + BinSlack)

\* The offset sequences NewBinning's callers may pass: non-empty, strictly
\* decreasing, ending in 0.
RECURSIVE OffsetSeqs(_)
OffsetSeqs(top) ==
    IF top = 0 THEN {<<0>>}
    ELSE UNION {{<<top>> \o t : t \in OffsetSeqs(k)} : k \in 0..(top - 1)}

NewOffsets == UNION {OffsetSeqs(top) : top \in 0..MaxOffsetNew}

(***************************************************************************)
(* The state machine.                                                      *)
(***************************************************************************)
Idle ==
    /\ op = "none"
    /\ args = [start |-> 0, stop |-> 0]
    /\ ret = [err |-> NoError]
    /\ clo = NilClosure
    /\ yielded = <<>>

Init ==
    /\ b = StandardBinning
    /\ Idle

InitNew ==
    /\ b \in {NewBinning(maxPosition, binOffsets, shiftFirst, shiftNext) :
                maxPosition \in 0..MaxPositionNew, binOffsets \in NewOffsets,
                shiftFirst \in 1..MaxShiftNew, shiftNext \in 1..MaxShiftNew}
    /\ Idle

\* The caller makes one call at a time, and makes the next one after it is
\* done with the result of the last: op = "none" between two calls.
CallAssign ==
    /\ op = "none"
    /\ \E start \in Positions(b), stop \in Positions(b) :
         /\ op' = "Assign"
         /\ args' = [start |-> start, stop |-> stop]
         /\ ret' = Assign(b, start, stop)
    /\ UNCHANGED <<b, clo, yielded>>

CallOverlapping ==
    /\ op = "none"
    /\ \E start \in Positions(b), stop \in Positions(b) :
         /\ op' = "Overlapping"
         /\ args' = [start |-> start, stop |-> stop]
         /\ ret' = Overlapping(b, start, stop)
    /\ UNCHANGED <<b, clo, yielded>>

CallContaining ==
    /\ op = "none"
    /\ \E start \in Positions(b), stop \in Positions(b) :
         /\ op' = "Containing"
         /\ args' = [start |-> start, stop |-> stop]
         /\ ret' = Containing(b, start, stop)
    /\ UNCHANGED <<b, clo, yielded>>

CallContained ==
    /\ op = "none"
    /\ \E start \in Positions(b), stop \in Positions(b) :
         /\ op' = "Contained"
         /\ args' = [start |-> start, stop |-> stop]
         /\ ret' = Contained(b, start, stop)
    /\ UNCHANGED <<b, clo, yielded>>

CallCovered ==
    /\ op = "none"
    /\ \E bin \in Bins(b) :
         /\ op' = "Covered"
         /\ args' = [bin |-> bin]
         /\ ret' = Covered(b, bin)
    /\ UNCHANGED <<b, clo, yielded>>

\* ranges(start, stop): the caller now holds the closure (or nil and an error).
CallRanges ==
    /\ op = "none"
    /\ \E start \in Positions(b), stop \in Positions(b) :
         LET r == ranges(b, start, stop)
         IN  /\ op' = "ranges"
             /\ args' = [start |-> start, stop |-> stop]
             /\ ret' = [err |-> r.err]
             /\ clo' = r.clo
    /\ yielded' = <<>>
    /\ UNCHANGED b

\* One call of the closure held; yielded records what each call returned.
CallNextRange ==
    /\ clo.live
    /\ Len(yielded) < MaxCalls
    /\ LET r == nextRange(b, clo)
       IN  /\ clo' = r.clo
           /\ ret' = [first |-> r.first, last |-> r.last, ok |-> r.ok]
           /\ yielded' = Append(yielded, [first |-> r.first, last |-> r.last, ok |-> r.ok])
    /\ op' = "nextRange"
    /\ UNCHANGED <<b, args>>

\* The caller is done with the returned value (and drops the closure, if it
\* holds one).
Release ==
    /\ op # "none"
    /\ op' = "none"
    /\ args' = [start |-> 0, stop |-> 0]
    /\ ret' = [err |-> NoError]
    /\ clo' = NilClosure
    /\ yielded' = <<>>
    /\ UNCHANGED b

Next ==
    \/ CallAssign
    \/ CallOverlapping
    \/ CallContaining
    \/ CallContained
    \/ CallCovered
    \/ CallRanges
    \/ CallNextRange
    \/ Release

Spec == Init /\ [][Next]_vars

\* Any scheme NewBinning builds from inputs meeting its preconditions.
SpecNew == InitNew /\ [][Next]_vars

(***************************************************************************)
(* Notions the properties are stated with.                                 *)
(***************************************************************************)
\* The interval the operations read: stop <= start is read as [start, start + 1).
IntervalStop(start, stop) == IF stop <= start THEN start + 1 ELSE stop

\* The interval is one the operations accept ...
Accepted(s, start, stop) == start >= 0 /\ stop <= s.MaxPosition + 1

\* ... and its first position is one of the position space.
InSpace(s, start, stop) == Accepted(s, start, stop) /\ start <= s.MaxPosition

\* ... and it is not empty.
Proper(s, start, stop) == Accepted(s, start, stop) /\ start < stop

ValidBins == 0..StandardBinning.MaxBin

\* Covered of every bin of the standard scheme.
CoveredTable == [bin \in ValidBins |-> Covered(StandardBinning, bin)]

\* The number of positions a bin covers.
BinSize(bin) == CoveredTable[bin].stop - CoveredTable[bin].start

\* The bin's covered range contains [start, stop).
Encloses(bin, start, stop) ==
    CoveredTable[bin].start <= start /\ stop <= CoveredTable[bin].stop

\* The bin's covered range shares a position with [start, stop).
Shares(bin, start, stop) ==
    CoveredTable[bin].start < stop /\ start < CoveredTable[bin].stop

SeqRange(seq) == {seq[i] : i \in DOMAIN seq}

OkRet == ret.err = NoError /\ ~ret.panic

\* Every pair the closure of ranges(start, stop) yields, in order.
RECURSIVE RangesFrom(_, _)
RangesFrom(s, c) ==
    LET r == nextRange(s, c)
    IN  IF ~r.ok THEN <<>>
        ELSE <<[first |-> r.first, last |-> r.last]>> \o RangesFrom(s, r.clo)

\* All valid bins in ascending order.
AscendingBins == [i \in 1..(StandardBinning.MaxBin + 1) |-> i - 1]

\* The bins sharing a position with [start, stop): level by level from the
\* finest, ascending within a level.
RECURSIVE ReferenceFrom(_, _)
ReferenceFrom(sharing, l) ==
    IF l > Len(StandardBinning.binOffsets) - 1 THEN <<>>
    ELSE LET OfLevel(bin) == BinSize(bin) = 2 ^ LevelShift(StandardBinning, l)
         IN  SelectSeq(sharing, OfLevel) \o ReferenceFrom(sharing, l + 1)

ReferenceOverlapping(start, stop) ==
    LET Sharing(bin) == Shares(bin, start, stop)
    IN  ReferenceFrom(SelectSeq(AscendingBins, Sharing), 0)

(***************************************************************************)
(* C1.  Under the standard scheme, for every (start, stop) Assign accepts  *)
(* (start >= 0, stop <= MaxPosition + 1, stop <= start included),          *)
(* Covered(Assign(start, stop)) succeeds with c0 <= start and stop <= c1.  *)
(***************************************************************************)
C1_AssignCoveredEncloses ==
    (op = "Assign" /\ Accepted(b, args.start, args.stop)) =>
        /\ OkRet
        /\ LET c == Covered(b, ret.bin)
           IN  c.err = NoError /\ ~c.panic /\ c.start <= args.start /\ args.stop <= c.stop

(***************************************************************************)
(* C2.  Under the standard scheme, for 0 <= start < stop <= MaxPosition+1, *)
(* Assign(start, stop) is the smallest bin fitting the interval: the bin   *)
(* of the finest level whose first and last bin coincide; its covered      *)
(* range contains [start, stop) and no valid bin covering fewer positions  *)
(* does.                                                                   *)
(***************************************************************************)
C2_AssignSmallestFitting ==
    (op = "Assign" /\ Proper(b, args.start, args.stop)) =>
        /\ OkRet
        /\ ret.bin \in ValidBins
        /\ Encloses(ret.bin, args.start, args.stop)
        /\ LET rs == RangesFrom(b, ranges(b, args.start, args.stop).clo)
               coincide == {i \in DOMAIN rs : rs[i].first = rs[i].last}
           IN  /\ coincide # {}
               /\ \E i \in coincide : /\ \A j \in coincide : i <= j
                                      /\ ret.bin = rs[i].first
        /\ LET size == BinSize(ret.bin)
           IN  \A bin \in ValidBins :
                 Encloses(bin, args.start, args.stop) => BinSize(bin) >= size

C2_Witness ==
    op = "Assign" /\ args = [start |-> 74012, stop |-> 173034] /\ OkRet /\ ret.bin = 73

(***************************************************************************)
(* C3.  Under the standard scheme, for 0 <= start <= MaxPosition and       *)
(* stop <= MaxPosition + 1, Overlapping(start, stop) is the list of all    *)
(* valid bins whose covered range shares a position with the interval,     *)
(* level by level from finest to coarsest, ascending within a level, each  *)
(* bin once.                                                               *)
(***************************************************************************)
C3_OverlappingIsReference ==
    (op = "Overlapping" /\ InSpace(b, args.start, args.stop)) =>
        /\ OkRet
        /\ ret.bins = ReferenceOverlapping(args.start, IntervalStop(args.start, args.stop))

C3_Witness ==
    /\ op = "Overlapping" /\ args = [start |-> 1200000, stop |-> 2000000] /\ OkRet
    /\ ret.bins = <<594, 595, 596, 597, 598, 599, 600, 74, 9, 1, 0>>

(***************************************************************************)
(* C4.  Under the standard scheme, for 0 <= start <= MaxPosition and       *)
(* stop <= MaxPosition + 1, a valid bin is in Containing(start, stop) iff  *)
(* its covered range contains the whole interval; the list is the Assign   *)
(* bin followed by one bin of each coarser level, down to the root.        *)
(***************************************************************************)
C4_ContainingIsEnclosing ==
    (op = "Containing" /\ InSpace(b, args.start, args.stop)) =>
        /\ OkRet
        /\ SeqRange(ret.bins) \subseteq ValidBins
        /\ LET got == SeqRange(ret.bins)
               stop == IntervalStop(args.start, args.stop)
           IN  got = {bin \in ValidBins : Encloses(bin, args.start, stop)}
        /\ Len(ret.bins) >= 1
        /\ ret.bins[1] = Assign(b, args.start, args.stop).bin
        /\ ret.bins[Len(ret.bins)] = 0
        /\ \A i \in 1..(Len(ret.bins) - 1) :
             BinSize(ret.bins[i + 1]) = Shl(BinSize(ret.bins[i]), b.shiftNext)

C4_Witness ==
    /\ op = "Containing" /\ args = [start |-> 1200000, stop |-> 2000000] /\ OkRet
    /\ ret.bins = <<74, 9, 1, 0>>

(***************************************************************************)
(* C5.  As claimed: under the standard scheme, for                         *)
(* 0 <= start < stop <= MaxPosition + 1, every bin of                      *)
(* Contained(start, stop) lies within the query interval: its covered      *)
(* range (c0, c1) satisfies start <= c0 and c1 <= stop.                    *)
(***************************************************************************)
C5_ContainedWithinQuery ==
    (op = "Contained" /\ Proper(b, args.start, args.stop)) =>
        /\ OkRet
        /\ SeqRange(ret.bins) \subseteq ValidBins
        /\ \A i \in DOMAIN ret.bins :
             /\ args.start <= CoveredTable[ret.bins[i]].start
             /\ CoveredTable[ret.bins[i]].stop <= args.stop

(***************************************************************************)
(* C5, amended.  Every bin of Contained(start, stop) lies within, or is,   *)
(* the covered range of Assign(start, stop), and shares a position with    *)
(* the query interval.                                                     *)
(***************************************************************************)
C5_ContainedWithinAssignBin ==
    (op = "Contained" /\ Proper(b, args.start, args.stop)) =>
        /\ OkRet
        /\ SeqRange(ret.bins) \subseteq ValidBins
        /\ LET a == Covered(b, Assign(b, args.start, args.stop).bin)
           IN  \A i \in DOMAIN ret.bins :
                 /\ a.start <= CoveredTable[ret.bins[i]].start
                 /\ CoveredTable[ret.bins[i]].stop <= a.stop
                 /\ Shares(ret.bins[i], args.start, args.stop)

C5_Witness ==
    /\ op = "Contained" /\ args = [start |-> 1200000, stop |-> 2000000] /\ OkRet
    /\ ret.bins = <<594, 595, 596, 597, 598, 599, 600, 74>>

(***************************************************************************)
(* C6.  Under the standard scheme, for 0 <= start < stop <= MaxPosition+1  *)
(* and every interval [s, e) with start <= s < e <= stop, Assign(s, e) is  *)
(* an element of Contained(start, stop).                                   *)
(***************************************************************************)
C6_ContainedHasSubintervalBins ==
    (op = "Contained" /\ Proper(b, args.start, args.stop)) =>
        /\ OkRet
        /\ LET got == SeqRange(ret.bins)
           IN  \A s \in Positions(b), e \in Positions(b) :
                 (args.start <= s /\ s < e /\ e <= args.stop) =>
                     /\ Assign(b, s, e).err = NoError
                     /\ Assign(b, s, e).bin \in got

C6_Witness ==
    /\ op = "Contained" /\ args = [start |-> 74012, stop |-> 2000000] /\ OkRet
    /\ Assign(b, 74012, 173034).bin = 73 /\ 73 \in SeqRange(ret.bins)
    /\ Assign(b, 1200000, 2000000).bin = 74 /\ 74 \in SeqRange(ret.bins)

(***************************************************************************)
(* C7.  Round trip under the standard scheme (MaxBin = 4680): for every    *)
(* bin in 0..MaxBin, Covered(bin) succeeds with (c0, c1), Assign(c0, c1)   *)
(* succeeds and is bin.                                                    *)
(***************************************************************************)
C7_CoveredAssignRoundTrip ==
    /\ b.MaxBin = 4680
    /\ (op = "Covered" /\ args.bin \in 0..b.MaxBin) =>
          /\ OkRet
          /\ Assign(b, ret.start, ret.stop) = [bin |-> args.bin, err |-> NoError, panic |-> FALSE]

C7_Witness ==
    /\ op = "Covered" /\ args.bin = 4680 /\ OkRet
    /\ ret.start = Shl(1, 29) - Shl(1, 17) /\ ret.stop = Shl(1, 29)

(***************************************************************************)
(* C8.  Assign, Overlapping, Containing and Contained return an error iff  *)
(* start < 0 or stop > MaxPosition + 1 (so the four agree, and stop <=     *)
(* start within those limits is not rejected); Covered returns an error    *)
(* iff bin < 0 or bin > MaxBin; a failing call returns the zero bin, the   *)
(* nil list, or (0, 0).                                                    *)
(***************************************************************************)
C8_ErrorsAreValidation ==
    /\ op \in {"Assign", "Overlapping", "Containing", "Contained"} =>
          /\ ~ret.panic
          /\ ret.err \in {NoError, OutOfRange}
          /\ ret.err = OutOfRange <=> ~Accepted(b, args.start, args.stop)
          /\ (op = "Assign" /\ ret.err # NoError) => ret.bin = 0
          /\ (op # "Assign" /\ ret.err # NoError) => (ret.isNil /\ ret.bins = <<>>)
          /\ (op # "Assign" /\ ret.err = NoError) => ~ret.isNil
          /\ op = "Assign" =>
                /\ Overlapping(b, args.start, args.stop).err = ret.err
                /\ Containing(b, args.start, args.stop).err = ret.err
                /\ Contained(b, args.start, args.stop).err = ret.err
    /\ op = "Covered" =>
          /\ ~ret.panic
          /\ ret.err \in {NoError, InvalidBin}
          /\ ret.err = InvalidBin <=> (args.bin < 0 \/ args.bin > b.MaxBin)
          /\ ret.err # NoError => (ret.start = 0 /\ ret.stop = 0)

C8_Witness ==
    /\ op = "Contained" /\ args.start = 1200000 /\ args.stop = b.MaxPosition + 2
    /\ ret.err = OutOfRange /\ ret.isNil

(***************************************************************************)
(* C9.  For every scheme NewBinning builds from inputs meeting the stated  *)
(* preconditions and every interval with start >= 0 and                    *)
(* stop <= MaxPosition + 1, Assign finds a level whose first and last bin  *)
(* coincide and returns a bin: it never reaches the panic.                 *)
(***************************************************************************)
C9_AssignNeverPanics ==
    (op = "Assign" /\ Accepted(b, args.start, args.stop)) =>
        (~ret.panic /\ ret.err = NoError)

(***************************************************************************)
(* C10.  Under the standard scheme, for 0 <= start <= MaxPosition and      *)
(* stop <= MaxPosition + 1, the calls of the closure of ranges yield one   *)
(* pair per level (5), finest level first, first <= last in each, the last *)
(* pair the root's (0, 0); every later call reports no value.              *)
(***************************************************************************)
C10_OnePairPerLevel ==
    (op \in {"ranges", "nextRange"} /\ InSpace(b, args.start, args.stop)) =>
        /\ clo.live
        /\ Len(b.binOffsets) = 5
        /\ \A i \in DOMAIN yielded :
             IF i <= Len(b.binOffsets)
             THEN /\ yielded[i].ok
                  /\ yielded[i].first <= yielded[i].last
                  /\ {yielded[i].first, yielded[i].last} \subseteq ValidBins
                  /\ BinSize(yielded[i].first) = 2 ^ LevelShift(b, i - 1)
                  /\ BinSize(yielded[i].last) = 2 ^ LevelShift(b, i - 1)
                  /\ i = Len(b.binOffsets) => (yielded[i].first = 0 /\ yielded[i].last = 0)
             ELSE yielded[i] = [first |-> 0, last |-> 0, ok |-> FALSE]

C10_Witness ==
    /\ op = "nextRange" /\ args = [start |-> 1200000, stop |-> 2000000]
    /\ Len(yielded) >= 6
    /\ yielded[1] = [first |-> 594, last |-> 600, ok |-> TRUE]
    /\ yielded[5] = [first |-> 0, last |-> 0, ok |-> TRUE]
    /\ ~yielded[6].ok

====
